---- MODULE Spec2Model ----
\* A model of the rest router (rest.go) and its default JSON protocol:
\* registration-time signature analysis (Router.buildHandler), the per-route
\* dispatcher it returns, the path-parameter binders (Router.pathParamBuilder)
\* and defaultProtocol.EncodeServerResponse.
EXTENDS Integers, Sequences, FiniteSets, TLC

VARIABLES
    routes,     \* Router.routes: every (method, path, handler) handed to buildHandler
    mux,        \* Router.router: the dispatchers Add stored in the pattern mux
    regPanic,   \* the panic raised by the last registration, "" if none
    resp,       \* what the last dispatched request did (binders, call, writes)
    bound,      \* what the last directly applied path-parameter binder returned
    program     \* the registrations the program using the router has yet to make

vars == <<routes, mux, regPanic, resp, bound, program>>

-----------------------------------------------------------------------------
\* Bounds of the model.

\* Longest path-segment text handed to a binder in SpecParse.
MaxLen == 4
\* Most parameters of a handler registered in SpecReg.
MaxParams == 3
\* Most registrations a program makes on its router in Spec.
MaxRoutes == 2

-----------------------------------------------------------------------------
\* reflect.Type values. A pointer type carries its element type's kind and name.

Ty(k, n) == [kind |-> k, name |-> n, elemKind |-> "", elemName |-> ""]

PtrTo(t) == [kind |-> "Ptr", name |-> "*" \o t.name, elemKind |-> t.kind, elemName |-> t.name]

Elem(t) == Ty(t.elemKind, t.elemName)

errorType   == Ty("Interface", "error")
contextType == Ty("Interface", "context.Context")
requestType == PtrTo(Ty("Struct", "http.Request"))
intType     == Ty("Int", "int")
int8Type    == Ty("Int8", "int8")
int16Type   == Ty("Int16", "int16")
int32Type   == Ty("Int32", "int32")
int64Type   == Ty("Int64", "int64")
uintType    == Ty("Uint", "uint")
uint8Type   == Ty("Uint8", "uint8")
uint16Type  == Ty("Uint16", "uint16")
uint32Type  == Ty("Uint32", "uint32")
uint64Type  == Ty("Uint64", "uint64")
float32Type == Ty("Float32", "float32")
float64Type == Ty("Float64", "float64")
stringType  == Ty("String", "string")

\* type StatusCode int
statusCodeType == Ty("Int", "rest.StatusCode")

\* Types a handler of the modelled service may also mention.
boolType     == Ty("Bool", "bool")
anyType      == Ty("Interface", "interface{}")
requestBodyT == Ty("Struct", "testRequest")
responseT    == Ty("Struct", "testResponse")
\* The dynamic type of the value r.Context() returns.
ctxImplType  == PtrTo(Ty("Struct", "context.cancelCtx"))

-----------------------------------------------------------------------------
\* error values and response bodies. One record shape serves both, because an
\* *ErrorResponse is an error and also the body written for it.
\*   kind "nil"            the nil interface
\*   kind "plain"          an error that is not an *ErrorResponse; message is Error()
\*   kind "ErrorResponse"  &ErrorResponse{Status, Message}
\*   kind "typednil"       a non-nil interface holding a nil pointer (a body only)
\*   kind "val"            any other body value

Nil == [kind |-> "nil", status |-> 0, message |-> ""]

PlainError(msg) == [kind |-> "plain", status |-> 0, message |-> msg]

Error(code, msg) == [kind |-> "ErrorResponse", status |-> code, message |-> msg]

TypedNil == [kind |-> "typednil", status |-> 0, message |-> ""]

BodyVal(msg) == [kind |-> "val", status |-> 0, message |-> msg]

-----------------------------------------------------------------------------
\* reflect.Value. The zero Value (reflect.Value{}) is the one with valid = FALSE.
\* num holds a numeric value, str a string (a sequence of one-character strings).

ZeroValue == [valid |-> FALSE, typ |-> Ty("Invalid", ""), num |-> 0, str |-> <<>>]

NumValue(t, n) == [valid |-> TRUE, typ |-> t, num |-> n, str |-> <<>>]

StrValue(s) == [valid |-> TRUE, typ |-> stringType, num |-> 0, str |-> s]

\* reflect.New(t): a pointer to a freshly allocated zero t.
reflectNew(t) == [valid |-> TRUE, typ |-> PtrTo(t), num |-> 0, str |-> <<>>]

OpaqueValue(t) == [valid |-> TRUE, typ |-> t, num |-> 0, str |-> <<>>]

-----------------------------------------------------------------------------
\* strconv, on texts that are sequences of one-character strings.

Digits == <<"0", "1", "2", "3", "4", "5", "6", "7", "8", "9">>

IsDigit(c) == \E i \in 1..Len(Digits) : Digits[i] = c

DigitVal(c) == (CHOOSE i \in 1..Len(Digits) : Digits[i] = c) - 1

AllDigits(s) == \A i \in 1..Len(s) : IsDigit(s[i])

RECURSIVE DecimalValue(_)
DecimalValue(s) ==
    IF s = <<>> THEN 0
    ELSE 10 * DecimalValue(SubSeq(s, 1, Len(s) - 1)) + DigitVal(s[Len(s)])

Pow2(n) == 2 ^ n

\* Every text of the model has at most 9 digits, so its value is below 2^31:
\* the 32-bit and 64-bit range checks of strconv can never fail on it.
UintInRange(n, bitSize) == IF bitSize >= 32 THEN TRUE ELSE n <= Pow2(bitSize) - 1

IntInRange(neg, un, bitSize) ==
    IF bitSize >= 32 THEN TRUE
    ELSE IF neg THEN un <= Pow2(bitSize - 1) ELSE un < Pow2(bitSize - 1)

ErrSyntax == PlainError("invalid syntax")
ErrRange  == PlainError("value out of range")

\* strconv.ParseUint(s, 10, bitSize): no sign, digits only.
ParseUint(s, bitSize) ==
    IF s = <<>> \/ ~AllDigits(s) THEN [n |-> 0, err |-> ErrSyntax]
    ELSE IF ~UintInRange(DecimalValue(s), bitSize) THEN [n |-> Pow2(bitSize) - 1, err |-> ErrRange]
    ELSE [n |-> DecimalValue(s), err |-> Nil]

HasSign(s) == s # <<>> /\ s[1] \in {"+", "-"}

\* strconv.ParseInt(s, 10, bitSize): an optional sign, then ParseUint's digits.
ParseInt(s, bitSize) ==
    LET neg  == s # <<>> /\ s[1] = "-"
        rest == IF HasSign(s) THEN Tail(s) ELSE s
        un   == DecimalValue(rest)
    IN  IF rest = <<>> \/ ~AllDigits(rest) THEN [n |-> 0, err |-> ErrSyntax]
        ELSE IF ~IntInRange(neg, un, bitSize)
             THEN [n |-> IF neg THEN 0 - Pow2(bitSize - 1) ELSE Pow2(bitSize - 1) - 1, err |-> ErrRange]
        ELSE [n |-> IF neg THEN 0 - un ELSE un, err |-> Nil]

\* strconv.ParseFloat on the texts of the model (signs, digits, letters): a
\* text is a float exactly when it is an optionally signed run of digits, and
\* its value is that integer, which float32 and float64 both hold exactly.
ParseFloat(s, bitSize) ==
    LET neg  == s # <<>> /\ s[1] = "-"
        rest == IF HasSign(s) THEN Tail(s) ELSE s
        un   == DecimalValue(rest)
    IN  IF rest = <<>> \/ ~AllDigits(rest) THEN [n |-> 0, err |-> ErrSyntax]
        ELSE [n |-> IF neg THEN 0 - un ELSE un, err |-> Nil]

\* strconv.Itoa, the decimal text of an integer.
RECURSIVE UDecimalText(_)
UDecimalText(n) ==
    IF n < 10 THEN <<Digits[n + 1]>>
    ELSE Append(UDecimalText(n \div 10), Digits[(n % 10) + 1])

DecimalText(n) == IF n < 0 THEN <<"-">> \o UDecimalText(0 - n) ELSE UDecimalText(n)

-----------------------------------------------------------------------------
\* Router.pathParamBuilder: the binder for one path parameter, by pt.Kind().

SignedKinds   == {"Int", "Int8", "Int16", "Int32", "Int64"}
UnsignedKinds == {"Uint", "Uint8", "Uint16", "Uint32", "Uint64"}
FloatKinds    == {"Float32", "Float64"}
PathKinds     == {"String"} \cup SignedKinds \cup UnsignedKinds \cup FloatKinds

\* The bitSize argument each case of the switch passes to strconv.
BitSize(kind) ==
    CASE kind \in {"Int8", "Uint8"}                   -> 8
      [] kind \in {"Int16", "Uint16"}                 -> 16
      [] kind \in {"Int32", "Uint32", "Float32"}      -> 32
      [] OTHER                                        -> 64

\* The package-level xxxType variable each case allocates its value from.
KindType(kind) ==
    CASE kind = "Int"     -> intType
      [] kind = "Int8"    -> int8Type
      [] kind = "Int16"   -> int16Type
      [] kind = "Int32"   -> int32Type
      [] kind = "Int64"   -> int64Type
      [] kind = "Uint"    -> uintType
      [] kind = "Uint8"   -> uint8Type
      [] kind = "Uint16"  -> uint16Type
      [] kind = "Uint32"  -> uint32Type
      [] kind = "Uint64"  -> uint64Type
      [] kind = "Float32" -> float32Type
      [] kind = "Float64" -> float64Type
      [] OTHER            -> stringType

\* The closure a case of the switch returns, applied to the named segment's
\* text. In the unsigned cases `v := reflect.New(...)` declares a new v inside
\* the if, so the v that is returned is still the zero Value.
PathBind(kind, text) ==
    CASE kind = "String" ->
            [val |-> StrValue(text), err |-> Nil]
      [] kind \in FloatKinds ->
            LET p == ParseFloat(text, BitSize(kind))
            IN  [val |-> IF p.err = Nil THEN NumValue(KindType(kind), p.n) ELSE ZeroValue,
                 err |-> p.err]
      [] kind \in SignedKinds ->
            LET p == ParseInt(text, BitSize(kind))
            IN  [val |-> IF p.err = Nil THEN NumValue(KindType(kind), p.n) ELSE ZeroValue,
                 err |-> p.err]
      [] kind \in UnsignedKinds ->
            LET p == ParseUint(text, BitSize(kind))
            IN  [val |-> ZeroValue, err |-> p.err]

\* pathParamBuilder's switch: a builder for the 13 supported kinds, else panic.
pathParamBuilder(pt, paramName, paramIndex) ==
    IF pt.kind \in PathKinds
    THEN [panic |-> "",
          builder |-> [role |-> "path", typ |-> pt, name |-> paramName, index |-> paramIndex]]
    ELSE [panic |-> "unsupported path parameter type",
          builder |-> [role |-> "none", typ |-> pt, name |-> paramName, index |-> paramIndex]]

-----------------------------------------------------------------------------
\* Router.buildHandler, registration time.

\* strings.Split(s, sep) for a one-character separator.
RECURSIVE Split(_, _)
Split(s, sep) ==
    IF \A i \in 1..Len(s) : s[i] # sep THEN <<s>>
    ELSE LET i == CHOOSE j \in 1..Len(s) : s[j] = sep /\ \A k \in 1..(j - 1) : s[k] # sep
         IN  <<SubSeq(s, 1, i - 1)>> \o Split(SubSeq(s, i + 1, Len(s)), sep)

\* strings.HasPrefix(part, ":")
HasPrefix(part, c) == Len(part) >= 1 /\ part[1] = c

\* The loop over strings.Split(path, "/") that collects the named segments.
RECURSIVE NamedParts(_)
NamedParts(parts) ==
    IF parts = <<>> THEN <<>>
    ELSE (IF HasPrefix(Head(parts), ":") THEN <<Tail(Head(parts))>> ELSE <<>>)
         \o NamedParts(Tail(parts))

PathParams(path) == NamedParts(Split(path, "/"))

Builder(role, typ, name, index) == [role |-> role, typ |-> typ, name |-> name, index |-> index]

\* One pass of the loop over the handler's parameters: the binder chosen for a
\* parameter of type pt, and paramIndex and haveBody as the pass leaves them.
NextBuilder_NoBodyFlag(pt, paramIndex, haveBody, params) ==
    IF pt = contextType
    THEN [panic |-> "", builder |-> Builder("context", pt, <<>>, -1),
          paramIndex |-> paramIndex, haveBody |-> haveBody]
    ELSE IF pt = requestType
    THEN [panic |-> "", builder |-> Builder("request", pt, <<>>, -1),
          paramIndex |-> paramIndex, haveBody |-> haveBody]
    ELSE IF paramIndex < Len(params)
    THEN LET b == pathParamBuilder(pt, params[paramIndex + 1], paramIndex)
         IN  [panic |-> b.panic, builder |-> b.builder,
              paramIndex |-> paramIndex + 1, haveBody |-> haveBody]
    ELSE [panic |-> "",
          builder |-> Builder("body", IF pt.kind = "Ptr" THEN Elem(pt) ELSE pt, <<>>, -1),
          paramIndex |-> paramIndex, haveBody |-> haveBody]

NextBuilder(pt, paramIndex, haveBody, params) ==
    IF pt = contextType
    THEN [panic |-> "", builder |-> Builder("context", pt, <<>>, -1),
          paramIndex |-> paramIndex, haveBody |-> haveBody]
    ELSE IF pt = requestType
    THEN [panic |-> "", builder |-> Builder("request", pt, <<>>, -1),
          paramIndex |-> paramIndex, haveBody |-> haveBody]
    ELSE IF paramIndex < Len(params)
    THEN LET b == pathParamBuilder(pt, params[paramIndex + 1], paramIndex)
         IN  [panic |-> b.panic, builder |-> b.builder,
              paramIndex |-> paramIndex + 1, haveBody |-> haveBody]
    ELSE IF haveBody
    THEN [panic |-> "have already mapped all path parameters and request body",
          builder |-> Builder("none", pt, <<>>, -1),
          paramIndex |-> paramIndex, haveBody |-> haveBody]
    ELSE [panic |-> "",
          builder |-> Builder("body", IF pt.kind = "Ptr" THEN Elem(pt) ELSE pt, <<>>, -1),
          paramIndex |-> paramIndex, haveBody |-> TRUE]

\* for i := 0; i < ft.NumIn(); i++ { ... builders = append(builders, builder) }
RECURSIVE BuildLoop(_, _, _, _, _, _)
BuildLoop(in, i, paramIndex, haveBody, builders, params) ==
    IF i > Len(in) THEN [panic |-> "", builders |-> builders]
    ELSE LET nb == NextBuilder(in[i], paramIndex, haveBody, params)
         IN  IF nb.panic # "" THEN [panic |-> nb.panic, builders |-> builders]
             ELSE BuildLoop(in, i + 1, nb.paramIndex, nb.haveBody,
                            Append(builders, nb.builder), params)

\* The checks on the return signature, then the loop. f is the handler's
\* function type: [in |-> parameter types, out |-> result types]. The returned
\* dispatcher closes over fv and builders.
buildHandler(method, path, f) ==
    IF Len(f.out) = 0
    THEN [panic |-> "expected return signature of (..., error)", builders |-> <<>>]
    ELSE IF f.out[Len(f.out)] # errorType
    THEN [panic |-> "expected return signature of (..., error) but got (..., other)",
          builders |-> <<>>]
    ELSE BuildLoop(f.in, 1, 0, FALSE, <<>>, PathParams(path))

-----------------------------------------------------------------------------
\* defaultProtocol.EncodeServerResponse. The http.ResponseWriter is modelled by
\* what is written to it: one record per WriteHeader-and-Encode.

StatusUnprocessableEntity == 422
StatusInternalServerError == 500
StatusCreated == 201
StatusNoContent == 204
StatusOK == 200

\* err.Error(): ErrorResponse.Error() formats "%d: %s"; any other error has
\* its own text.
ErrorString(e) ==
    IF e.kind = "ErrorResponse" THEN ToString(e.status) \o ": " \o e.message ELSE e.message

\* The error branch: the status and the *ErrorResponse passed to the recursive call.
ErrorEnvelope_IgnoreOwnStatus(code, err) ==
    LET c == IF code = 0 THEN StatusInternalServerError ELSE code
    IN  [code |-> c, response |-> Error(c, ErrorString(err))]

ErrorEnvelope(code, err) ==
    IF err.kind = "ErrorResponse"
    THEN [code |-> err.status, response |-> err]
    ELSE LET c == IF code = 0 THEN StatusInternalServerError ELSE code
         IN  [code |-> c, response |-> Error(c, ErrorString(err))]

\* The non-error branch: the status written for (code, v) on a request of req.Method.
FinalStatus_NoContentFirst(method, code, v) ==
    IF code # 0 THEN code
    ELSE IF v = Nil THEN StatusNoContent
    ELSE IF method = "POST" THEN StatusCreated
    ELSE StatusOK

FinalStatus(method, code, v) ==
    IF code # 0 THEN code
    ELSE IF method = "POST" THEN StatusCreated
    ELSE IF v = Nil THEN StatusNoContent
    ELSE StatusOK

\* The sequence of writes one call makes on w.
RECURSIVE EncodeServerResponse(_, _, _, _)
EncodeServerResponse(method, code, err, v) ==
    IF err # Nil
    THEN LET e == ErrorEnvelope(code, err)
         IN  EncodeServerResponse(method, e.code, Nil, e.response)
    ELSE <<[status |-> FinalStatus(method, code, v),
            contentType |-> "application/json",
            body |-> v]>>

-----------------------------------------------------------------------------
\* The dispatcher buildHandler returns, request time.
\* A request is [method, query, decodeErr]: query maps each named segment of
\* the route to the text the mux captured for it, and decodeErr is what
\* Protocol.DecodeClientRequest returns for this request's body.

\* One builder applied to the request.
Build(b, req) ==
    CASE b.role = "context" -> [val |-> OpaqueValue(ctxImplType), err |-> Nil, decodes |-> 0]
      [] b.role = "request" -> [val |-> OpaqueValue(requestType), err |-> Nil, decodes |-> 0]
      [] b.role = "path"    ->
            LET r == PathBind(b.typ.kind, req.query[b.name])
            IN  [val |-> r.val, err |-> r.err, decodes |-> 0]
      [] b.role = "body"    -> [val |-> reflectNew(b.typ), err |-> req.decodeErr, decodes |-> 1]

\* What the loop over the builders does after a builder returned err.
AfterBuilder_KeepGoing(err) == "next"

AfterBuilder(err) == IF err # Nil THEN "returnError" ELSE "next"

\* for i, builder := range builders { params[i], err = builder(req); ... }
\* ran lists the builders run, in the order they ran; err is the failure the
\* loop stopped on, Nil if it ran to the end.
RECURSIVE RunBuilders(_, _, _, _)
RunBuilders(builders, i, req, acc) ==
    IF i > Len(builders) THEN acc
    ELSE LET r   == Build(builders[i], req)
             now == [ran     |-> Append(acc.ran, i),
                     params  |-> Append(acc.params, r.val),
                     decodes |-> acc.decodes + r.decodes,
                     err     |-> r.err]
         IN  IF AfterBuilder(r.err) = "returnError" THEN now
             ELSE RunBuilders(builders, i + 1, req, [now EXCEPT !.err = Nil])

\* Router.returnError
returnError(method, code, err) == EncodeServerResponse(method, code, err, Nil)

\* reflect: a value of type xt may be passed for a parameter of type targ.
AssignableTo(xt, targ) ==
    \/ xt = targ
    \/ targ = contextType /\ xt = ctxImplType
    \/ targ = anyType

\* fv.Call(params) panics on a zero Value and on a value of the wrong type.
CallPanics(f, params) ==
    \E i \in 1..Len(params) :
        \/ ~params[i].valid
        \/ ~AssignableTo(params[i].typ, f.in[i])

IntKinds == SignedKinds

\* The switch on len(ret): the arguments of the one EncodeServerResponse call
\* it makes, none for an arity it has no case for, or a panic in ret[1].Int().
\* ret is what the handler returned: [err, code, body], code being the value of
\* its integer result and body the value of its first result.
EncodeArgs_DropStatus(f, ret) ==
    LET n    == Len(f.out)
        call(code, err, v) == [code |-> code, err |-> err, v |-> v]
    IN  CASE n = 1 ->
                [panic |-> FALSE, calls |-> <<call(0, ret.err, Nil)>>]
          [] n = 2 ->
                IF ret.err # Nil THEN [panic |-> FALSE, calls |-> <<call(0, ret.err, Nil)>>]
                ELSE IF f.out[1] = statusCodeType
                THEN [panic |-> FALSE, calls |-> <<call(0, Nil, Nil)>>]
                ELSE [panic |-> FALSE, calls |-> <<call(0, Nil, ret.body)>>]
          [] n = 3 ->
                IF ret.err # Nil THEN [panic |-> FALSE, calls |-> <<call(0, ret.err, Nil)>>]
                ELSE IF f.out[2].kind \notin IntKinds
                THEN [panic |-> TRUE, calls |-> <<>>]
                ELSE [panic |-> FALSE, calls |-> <<call(0, Nil, ret.body)>>]
          [] OTHER ->
                [panic |-> FALSE, calls |-> <<>>]

EncodeArgs(f, ret) ==
    LET n    == Len(f.out)
        call(code, err, v) == [code |-> code, err |-> err, v |-> v]
    IN  CASE n = 1 ->
                [panic |-> FALSE, calls |-> <<call(0, ret.err, Nil)>>]
          [] n = 2 ->
                IF ret.err # Nil THEN [panic |-> FALSE, calls |-> <<call(0, ret.err, Nil)>>]
                ELSE IF f.out[1] = statusCodeType
                THEN [panic |-> FALSE, calls |-> <<call(ret.code, Nil, Nil)>>]
                ELSE [panic |-> FALSE, calls |-> <<call(0, Nil, ret.body)>>]
          [] n = 3 ->
                IF ret.err # Nil THEN [panic |-> FALSE, calls |-> <<call(0, ret.err, Nil)>>]
                ELSE IF f.out[2].kind \notin IntKinds
                THEN [panic |-> TRUE, calls |-> <<>>]
                ELSE [panic |-> FALSE, calls |-> <<call(ret.code, Nil, ret.body)>>]
          [] OTHER ->
                [panic |-> FALSE, calls |-> <<>>]

NoRet == [err |-> Nil, code |-> 0, body |-> Nil]

\* The whole dispatcher on one request; d is the mux entry (method, path, fv,
\* builders) and ret what the handler returns if it is called.
Dispatch(d, req, ret) ==
    LET b == RunBuilders(d.builders, 1, req, [ran |-> <<>>, params |-> <<>>, decodes |-> 0, err |-> Nil])
        base == [served |-> TRUE, route |-> 0, req |-> req, ran |-> b.ran, params |-> b.params,
                 decodes |-> b.decodes, binderErr |-> b.err,
                 invoked |-> FALSE, ret |-> NoRet, panicked |-> FALSE,
                 calls |-> <<>>, writes |-> <<>>]
    IN  IF b.err # Nil
        THEN [base EXCEPT !.calls  = <<[code |-> StatusUnprocessableEntity, err |-> b.err, v |-> Nil]>>,
                          !.writes = returnError(req.method, StatusUnprocessableEntity, b.err)]
        ELSE IF CallPanics(d.fv, b.params)
        THEN [base EXCEPT !.panicked = TRUE]
        ELSE LET e == EncodeArgs(d.fv, ret)
             IN  [base EXCEPT !.invoked  = TRUE,
                              !.ret      = ret,
                              !.panicked = e.panic,
                              !.calls    = e.calls,
                              !.writes   = IF e.calls = <<>> THEN <<>>
                                           ELSE EncodeServerResponse(req.method, e.calls[1].code,
                                                                     e.calls[1].err, e.calls[1].v)]

-----------------------------------------------------------------------------
\* The inputs the model draws from.

SeqsUpTo(S, n) == UNION {[1..k -> S] : k \in 0..n}

\* The methods of Del, Get, Head, Options, Patch, Post and Put, and one that
\* only Add itself can register.
Methods == {"DEL", "GET", "HEAD", "OPTIONS", "PATCH", "POST", "PUT", "TRACE"}

\* "/a", "/a/:i" and "/:p/b/:i"
PathA   == <<"/", "a">>
PathAI  == <<"/", "a", "/", ":", "i">>
PathPBI == <<"/", ":", "p", "/", "b", "/", ":", "i">>

Paths == {PathA, PathAI, PathPBI}

ptrRequestBodyT == PtrTo(requestBodyT)
ptrResponseT    == PtrTo(responseT)

\* Result lists of handlers: the four documented shapes and malformed ones.
OutShapes ==
    { <<>>,
      <<errorType>>,
      <<ptrResponseT>>,
      <<ptrResponseT, errorType>>,
      <<intType, errorType>>,
      <<anyType, errorType>>,
      <<statusCodeType, errorType>>,
      <<ptrResponseT, statusCodeType, errorType>>,
      <<ptrResponseT, intType, errorType>>,
      <<ptrResponseT, stringType, errorType>>,
      <<ptrResponseT, ptrResponseT, statusCodeType, errorType>> }

\* Parameter types of the handlers registered in SpecReg.
ParamTypes ==
    {contextType, requestType, int8Type, boolType, ptrRequestBodyT, requestBodyT}

AnyHandlers == [in : SeqsUpTo(ParamTypes, MaxParams), out : OutShapes]

\* Parameter lists of the handlers of the one-route programs of Spec.
ServiceIns ==
    { <<>>,
      <<intType>>,
      <<uint8Type>>,
      <<boolType>>,
      <<ptrRequestBodyT>>,
      <<requestBodyT>>,
      <<int8Type, ptrRequestBodyT>>,
      <<ptrRequestBodyT, ptrRequestBodyT>>,
      <<requestType, int8Type, int8Type>>,
      <<contextType, stringType, ptrRequestBodyT>> }

ServiceHandlers == [in : ServiceIns, out : OutShapes]

\* One registration call: Add(method, path, f).
Call(method, path, in, out) ==
    [method |-> method, path |-> path, f |-> [in |-> in, out |-> out]]

\* The registrations a program of Spec chooses from: the routes of TestREST on
\* the paths of the model, and routes whose handlers TestREST does not cover.
ServiceRoutes ==
    { Call("GET",  PathA,   <<>>, <<errorType>>),
      Call("GET",  PathAI,  <<intType>>, <<intType, errorType>>),
      Call("GET",  PathA,   <<>>, <<ptrResponseT, errorType>>),
      Call("GET",  PathA,   <<>>, <<statusCodeType, errorType>>),
      Call("GET",  PathA,   <<>>, <<ptrResponseT, statusCodeType, errorType>>),
      Call("POST", PathA,   <<ptrRequestBodyT>>, <<ptrResponseT, errorType>>),
      Call("POST", PathAI,  <<int8Type, ptrRequestBodyT>>, <<ptrResponseT, statusCodeType, errorType>>),
      Call("PUT",  PathPBI, <<requestType, int8Type, int8Type>>, <<anyType, errorType>>),
      Call("DEL",  PathAI,  <<contextType, stringType, ptrRequestBodyT>>, <<anyType, errorType>>),
      Call("HEAD", PathAI,  <<uint8Type>>, <<errorType>>),
      Call("GET",  PathA,   <<>>, <<ptrResponseT, ptrResponseT, statusCodeType, errorType>>),
      Call("POST", PathA,   <<>>, <<errorType>>),
      Call("PATCH", PathA,  <<requestBodyT>>, <<errorType>>),
      Call("OPTIONS", PathA, <<ptrRequestBodyT>>, <<errorType>>),
      Call("PUT",  PathA,   <<ptrRequestBodyT, ptrRequestBodyT>>, <<errorType>>),
      Call("GET",  PathAI,  <<boolType>>, <<errorType>>),
      Call("TRACE", PathA,  <<>>, <<anyType, errorType>>),
      Call("GET",  PathA,   <<>>, <<>>) }

Text7    == <<"7">>
TextNeg3 == <<"-", "3">>
Text300  == <<"3", "0", "0">>
TextX    == <<"x">>

\* Texts the mux captures for a named segment in Spec.
SampleTexts == {Text7, TextNeg3, Text300, TextX}

\* Texts handed to a binder in SpecParse.
Alphabet == {"-", "+", "0", "1", "2", "9", "x"}

Texts == SeqsUpTo(Alphabet, MaxLen)

\* What Protocol.DecodeClientRequest may return: nil, a decoder's own error,
\* or an error made with rest.Error.
DecodeErrs == {Nil, PlainError("unexpected EOF"), Error(400, "invalid"), Error(0, "invalid")}

\* What a handler may return as its error.
HandlerErrs == {Nil, PlainError("error"), Error(400, "invalid"), Error(0, "invalid")}

StatusTeapot == 418

Codes == {0, StatusTeapot}

Range(s) == {s[i] : i \in 1..Len(s)}

HasBody(builders) == \E i \in 1..Len(builders) : builders[i].role = "body"

Requests(d) ==
    [method    : {d.method},
     query     : [Range(PathParams(d.path)) -> SampleTexts],
     decodeErr : IF HasBody(d.builders) THEN DecodeErrs ELSE {Nil}]

\* The values a result of type t can hold, as ret[0].Interface() gives them.
BodiesOf(t) ==
    IF t.kind = "Interface" THEN {Nil, BodyVal("teapot")}
    ELSE IF t.kind = "Ptr" THEN {TypedNil, BodyVal("teapot")}
    ELSE {BodyVal("43")}

HasStatusResult(out) ==
    \/ Len(out) = 2 /\ out[1] = statusCodeType
    \/ Len(out) = 3 /\ out[2].kind \in IntKinds

HasBodyResult(out) == Len(out) >= 2 /\ ~(Len(out) = 2 /\ out[1] = statusCodeType)

HandlerResults(out) ==
    [err  : HandlerErrs,
     code : IF HasStatusResult(out) THEN Codes ELSE {0},
     body : IF HasBodyResult(out) THEN BodiesOf(out[1]) ELSE {Nil}]

-----------------------------------------------------------------------------
\* The state machine.

NoReq == [method |-> "", query |-> [n \in {} |-> <<>>], decodeErr |-> Nil]

NoResp == [served |-> FALSE, route |-> 0, req |-> NoReq, ran |-> <<>>, params |-> <<>>,
           decodes |-> 0, binderErr |-> Nil, invoked |-> FALSE, ret |-> NoRet,
           panicked |-> FALSE, calls |-> <<>>, writes |-> <<>>]

NoBound == [applied |-> FALSE, kind |-> "", text |-> <<>>, val |-> ZeroValue, err |-> Nil]

\* rest.New(), in a program that has its registrations still to make: one
\* registration of any handler of the service on any method and path, or up to
\* MaxRoutes registrations out of ServiceRoutes, the same one twice included.
Init ==
    /\ routes = <<>>
    /\ mux = <<>>
    /\ regPanic = ""
    /\ resp = NoResp
    /\ bound = NoBound
    /\ \/ \E method \in Methods, path \in Paths, f \in ServiceHandlers :
             program = <<Call(method, path, f.in, f.out)>>
       \/ program \in SeqsUpTo(ServiceRoutes, MaxRoutes)

\* Router.Add. buildHandler records the route before it checks anything; the
\* mux gets the dispatcher only if buildHandler returns.
Add(method, path, f) ==
    /\ LET h == buildHandler(method, path, f)
       IN  /\ routes' = Append(routes, [method |-> method, path |-> path, handler |-> f])
           /\ regPanic' = h.panic
           /\ mux' = IF h.panic # "" THEN mux
                     ELSE Append(mux, [method |-> method, path |-> path, fv |-> f,
                                       builders |-> h.builders])
    /\ UNCHANGED <<resp, bound>>

\* The program makes its next registration (Add, or Del, Get, Head, Options,
\* Patch, Post, Put, which call Add). A registration that panicked is one the
\* program recovered from.
Register ==
    /\ program # <<>>
    /\ Add(Head(program).method, Head(program).path, Head(program).f)
    /\ program' = Tail(program)

\* The mux serves a request with the first handler registered for its method
\* whose pattern matches; the patterns of the model match disjoint sets of
\* URLs, so that is the first entry with the same method and pattern.
Serves(i) ==
    \A j \in 1..(i - 1) : ~(mux[j].method = mux[i].method /\ mux[j].path = mux[i].path)

\* The handler runs only if every builder succeeded and fv.Call accepts the
\* values; only then is there a returned value to choose.
Reaches(d, req) ==
    LET b == RunBuilders(d.builders, 1, req, [ran |-> <<>>, params |-> <<>>, decodes |-> 0, err |-> Nil])
    IN  b.err = Nil /\ ~CallPanics(d.fv, b.params)

\* Router.ServeHTTP: the mux hands a matching request to the route's dispatcher.
\* Every request comes with its own http.ResponseWriter, so resp starts empty.
ServeHTTP ==
    /\ mux # <<>>
    /\ ~resp.served
    /\ \E i \in 1..Len(mux) :
         /\ Serves(i)
         /\ \E req \in Requests(mux[i]) :
               \E ret \in (IF Reaches(mux[i], req) THEN HandlerResults(mux[i].fv.out) ELSE {NoRet}) :
                  resp' = [Dispatch(mux[i], req, ret) EXCEPT !.route = i]
    /\ UNCHANGED <<routes, mux, regPanic, bound, program>>

\* The server is done with the request and its ResponseWriter.
Finish ==
    /\ resp.served
    /\ resp' = NoResp
    /\ UNCHANGED <<routes, mux, regPanic, bound, program>>

\* A path-parameter binder built for a parameter of kind bound.kind, applied to
\* a request whose named segment has the text bound.text.
ApplyBinder ==
    /\ ~bound.applied
    /\ LET b == pathParamBuilder(KindType(bound.kind), <<"i", "d">>, 0)
           r == PathBind(b.builder.typ.kind, bound.text)
       IN  /\ b.panic = ""
           /\ bound' = [bound EXCEPT !.applied = TRUE, !.val = r.val, !.err = r.err]
    /\ UNCHANGED <<routes, mux, regPanic, resp, program>>

\* The binder's inputs: a supported kind and a segment text.
InitParse ==
    /\ routes = <<>>
    /\ mux = <<>>
    /\ regPanic = ""
    /\ resp = NoResp
    /\ bound \in [applied : {FALSE}, kind : PathKinds, text : Texts,
                  val : {ZeroValue}, err : {Nil}]
    /\ program = <<>>

\* rest.New(), in a program that only registers: one registration of any
\* handler of up to MaxParams parameters, or up to MaxRoutes registrations out
\* of ServiceRoutes.
InitReg ==
    /\ routes = <<>>
    /\ mux = <<>>
    /\ regPanic = ""
    /\ resp = NoResp
    /\ bound = NoBound
    /\ \/ \E method \in Methods, path \in Paths, f \in AnyHandlers :
             program = <<Call(method, path, f.in, f.out)>>
       \/ program \in SeqsUpTo(ServiceRoutes, MaxRoutes)

Next == Register \/ ServeHTTP \/ Finish

Spec == Init /\ [][Next]_vars

NextReg == Register

SpecReg == InitReg /\ [][NextReg]_vars

NextParse == ApplyBinder

SpecParse == InitParse /\ [][NextParse]_vars

-----------------------------------------------------------------------------
\* Properties.

\* The mux entry whose dispatcher served the request in resp.
route == mux[resp.route]

\* The builders of a route that fail on a request, each taken on its own.
FailingBuilders(d, req) == {i \in 1..Len(d.builders) : Build(d.builders[i], req).err # Nil}

FirstFailing(d, req) ==
    CHOOSE i \in FailingBuilders(d, req) : \A j \in FailingBuilders(d, req) : i <= j

UpTo(k) == [i \in 1..k |-> i]

\* C1 as claimed: whenever a builder of the route fails on the request, the
\* builders up to the first failing one ran in declared order and no other,
\* the handler was not invoked, and the one response written has status 422
\* and the body {422, the failure's description}, whatever the error is.
C1_BinderFailureIs422 ==
    (resp.served /\ FailingBuilders(route, resp.req) # {}) =>
        LET k   == FirstFailing(route, resp.req)
            err == Build(route.builders[k], resp.req).err
        IN  /\ resp.ran = UpTo(k)
            /\ ~resp.invoked
            /\ Len(resp.writes) = 1
            /\ resp.writes[1].status = StatusUnprocessableEntity
            /\ resp.writes[1].body = Error(StatusUnprocessableEntity, ErrorString(err))

\* C1 amended: as C1, but the response has status 422 and the body {422, the
\* failure's description} when the failing builder's error is not an
\* *ErrorResponse; an error that is an *ErrorResponse is itself the body
\* written, and its own status, when not 0, is the status written.
C1_BinderFailure ==
    (resp.served /\ FailingBuilders(route, resp.req) # {}) =>
        LET k   == FirstFailing(route, resp.req)
            err == Build(route.builders[k], resp.req).err
        IN  /\ resp.ran = UpTo(k)
            /\ ~resp.invoked
            /\ Len(resp.writes) = 1
            /\ err.kind = "plain" =>
                  /\ resp.writes[1].status = StatusUnprocessableEntity
                  /\ resp.writes[1].body = Error(StatusUnprocessableEntity, err.message)
            /\ err.kind = "ErrorResponse" =>
                  /\ resp.writes[1].body = err
                  /\ err.status # 0 => resp.writes[1].status = err.status

\* A path segment failed to parse in a route that has a later builder, which
\* did not run, and 422 was written.
C1_Witness ==
    /\ resp.served
    /\ resp.binderErr = ErrSyntax
    /\ Len(resp.ran) < Len(route.builders)
    /\ route.builders[Len(resp.ran) + 1].role = "body"
    /\ ~resp.invoked
    /\ resp.writes[1].status = StatusUnprocessableEntity

\* C2 as claimed: when the handler returns a non-nil error, in every return
\* shape, the encoder is called with status 0, that error and no body, and one
\* response is written: for an *ErrorResponse with status s, status s and body
\* {s, message}, for every s; for any other error, status 500 and body
\* {500, the error's text}.
C2_HandlerErrorStatus ==
    (resp.served /\ resp.invoked /\ resp.ret.err # Nil /\ Len(route.fv.out) \in 1..3) =>
        /\ resp.calls = <<[code |-> 0, err |-> resp.ret.err, v |-> Nil]>>
        /\ Len(resp.writes) = 1
        /\ resp.ret.err.kind = "ErrorResponse" =>
              /\ resp.writes[1].status = resp.ret.err.status
              /\ resp.writes[1].body = Error(resp.ret.err.status, resp.ret.err.message)
        /\ resp.ret.err.kind = "plain" =>
              /\ resp.writes[1].status = StatusInternalServerError
              /\ resp.writes[1].body = Error(StatusInternalServerError, resp.ret.err.message)

\* C2 amended: as C2, but the status written is s for every s other than 0; an
\* *ErrorResponse with status 0 is written with body {0, message} under the
\* default status of a response with a body (201 for a POST, else 200).
C2_HandlerError ==
    (resp.served /\ resp.invoked /\ resp.ret.err # Nil /\ Len(route.fv.out) \in 1..3) =>
        /\ resp.calls = <<[code |-> 0, err |-> resp.ret.err, v |-> Nil]>>
        /\ Len(resp.writes) = 1
        /\ resp.ret.err.kind = "ErrorResponse" =>
              /\ resp.writes[1].body = Error(resp.ret.err.status, resp.ret.err.message)
              /\ resp.ret.err.status # 0 => resp.writes[1].status = resp.ret.err.status
              /\ resp.ret.err.status = 0 =>
                    resp.writes[1].status = IF resp.req.method = "POST" THEN 201 ELSE 200
        /\ resp.ret.err.kind = "plain" =>
              /\ resp.writes[1].status = StatusInternalServerError
              /\ resp.writes[1].body = Error(StatusInternalServerError, resp.ret.err.message)

\* A three-result handler returned a body, a status and an *ErrorResponse of
\* status 400, and 400 was written with the error as the body.
C2_Witness ==
    /\ resp.served /\ resp.invoked
    /\ Len(route.fv.out) = 3
    /\ resp.ret.err = Error(400, "invalid")
    /\ resp.ret.code = StatusTeapot
    /\ resp.ret.body # TypedNil
    /\ resp.writes = <<[status |-> 400, contentType |-> "application/json",
                        body |-> Error(400, "invalid")]>>

\* C3 as claimed: when the encoder is called with a nil error and status 0, it
\* writes 201 for a POST with a body, 204 whenever there is no body (a POST
\* included), and 200 otherwise.
C3_DefaultStatusNoBodyFirst ==
    (resp.served /\ resp.calls # <<>> /\ resp.calls[1].err = Nil /\ resp.calls[1].code = 0) =>
        /\ Len(resp.writes) = 1
        /\ resp.writes[1].status =
              IF resp.calls[1].v = Nil THEN 204
              ELSE IF resp.req.method = "POST" THEN 201
              ELSE 200

\* C3 amended: when the encoder is called with a nil error and status 0, it
\* writes 201 for a POST, with or without a body, 204 for any other method
\* with no body, and 200 otherwise.
C3_DefaultStatus ==
    (resp.served /\ resp.calls # <<>> /\ resp.calls[1].err = Nil /\ resp.calls[1].code = 0) =>
        /\ Len(resp.writes) = 1
        /\ resp.writes[1].status =
              IF resp.req.method = "POST" THEN 201
              ELSE IF resp.calls[1].v = Nil THEN 204
              ELSE 200

\* An (error)-only handler of a POST route returned nil: no body, 201 written.
C3_Witness ==
    /\ resp.served /\ resp.invoked
    /\ resp.req.method = "POST"
    /\ Len(route.fv.out) = 1
    /\ resp.calls = <<[code |-> 0, err |-> Nil, v |-> Nil]>>
    /\ resp.writes[1].status = 201

StatusShape(out) ==
    \/ Len(out) = 2 /\ out[1] = statusCodeType
    \/ Len(out) = 3 /\ out[2] = statusCodeType

\* C4 as claimed: a (StatusCode, error) or (body, StatusCode, error) handler
\* that returns a nil error and status c has exactly c written, for every c,
\* 0 included; the encoder gets no body in the first shape and the handler's
\* first result in the second.
C4_ExplicitStatusAlways ==
    (resp.served /\ resp.invoked /\ resp.ret.err = Nil /\ StatusShape(route.fv.out)) =>
        /\ Len(resp.calls) = 1 /\ Len(resp.writes) = 1
        /\ resp.calls[1].v = (IF Len(route.fv.out) = 2 THEN Nil ELSE resp.ret.body)
        /\ resp.writes[1].status = resp.ret.code

\* C4 amended: as C4 for every c other than 0; for c = 0 the status written is
\* the encoder's default (201 for a POST, else 204 with no body, else 200).
C4_ExplicitStatus ==
    (resp.served /\ resp.invoked /\ resp.ret.err = Nil /\ StatusShape(route.fv.out)) =>
        /\ Len(resp.calls) = 1 /\ Len(resp.writes) = 1
        /\ resp.calls[1].v = (IF Len(route.fv.out) = 2 THEN Nil ELSE resp.ret.body)
        /\ resp.writes[1].body = resp.calls[1].v
        /\ resp.ret.code # 0 => resp.writes[1].status = resp.ret.code
        /\ resp.ret.code = 0 =>
              resp.writes[1].status =
                 IF resp.req.method = "POST" THEN 201
                 ELSE IF resp.calls[1].v = Nil THEN 204
                 ELSE 200

\* A (body, StatusCode, error) handler of a POST route returned a body, 418
\* and nil, and 418 was written with that body.
C4_Witness ==
    /\ resp.served /\ resp.invoked
    /\ resp.req.method = "POST"
    /\ route.fv.out = <<ptrResponseT, statusCodeType, errorType>>
    /\ resp.ret = [err |-> Nil, code |-> StatusTeapot, body |-> BodyVal("teapot")]
    /\ resp.writes = <<[status |-> StatusTeapot, contentType |-> "application/json",
                        body |-> BodyVal("teapot")]>>

\* The three return shapes the router documents.
AcceptedShape(out) ==
    \/ Len(out) = 1 /\ out[1] = errorType
    \/ Len(out) = 2 /\ out[2] = errorType
    \/ Len(out) = 3 /\ out[3] = errorType /\ out[2] = statusCodeType

\* C5: a registration that succeeded (the mux holds a dispatcher) is of a
\* handler whose results are (error), (value, error) or (value, StatusCode,
\* error); every other result list made the registration panic.
C5_OnlyDocumentedShapes ==
    \A i \in 1..Len(mux) : AcceptedShape(mux[i].fv.out)


\* A handler of four results, the last an error, was registered.
C5_Reached ==
    /\ mux # <<>>
    /\ Len(mux[Len(mux)].fv.out) = 4

\* The named segments of the paths of the model, left to right.
ExpectedNames(path) ==
    CASE path = PathA   -> <<>>
      [] path = PathAI  -> << <<"i">> >>
      [] path = PathPBI -> << <<"p">>, <<"i">> >>

Passthrough(t) == t \in {contextType, requestType}

\* How many of the first i parameters are neither a context nor a request.
Rank(in, i) == Cardinality({j \in 1..i : ~Passthrough(in[j])})

\* The dispatcher of the latest registration, when it succeeded.
latest == mux[Len(mux)]

\* C6: for a handler with a well-formed result list whose path-bound
\* parameters all have a supported kind, classification is positional:
\* a context.Context or *http.Request is a passthrough wherever it stands, the
\* k-th other parameter binds to the k-th named segment while k is at most the
\* number of named segments, the next one is the body parameter, and one more
\* makes the registration panic; so an accepted handler has at most one body.
C6_PositionalClassification ==
    routes # <<>> =>
        LET f     == routes[Len(routes)].handler
            names == ExpectedNames(routes[Len(routes)].path)
            nseg  == Len(names)
            others == {i \in 1..Len(f.in) : ~Passthrough(f.in[i])}
            retOK == Len(f.out) > 0 /\ f.out[Len(f.out)] = errorType
            unsupported == \E i \in others :
                              Rank(f.in, i) <= nseg /\ f.in[i].kind \notin PathKinds
            extra == \E i \in others : Rank(f.in, i) >= nseg + 2
        IN  (retOK /\ ~unsupported) =>
               IF extra
               THEN /\ regPanic = "have already mapped all path parameters and request body"
                    /\ Len(mux) < Len(routes)
               ELSE /\ regPanic = ""
                    /\ mux # <<>>
                    /\ latest.fv = f
                    /\ Len(latest.builders) = Len(f.in)
                    /\ \A i \in 1..Len(f.in) :
                          LET b == latest.builders[i]
                              k == Rank(f.in, i)
                          IN  /\ f.in[i] = contextType => b.role = "context"
                              /\ f.in[i] = requestType => b.role = "request"
                              /\ (i \in others /\ k <= nseg) =>
                                    /\ b.role = "path"
                                    /\ b.name = names[k]
                                    /\ b.index = k - 1
                                    /\ b.typ = f.in[i]
                              /\ (i \in others /\ k = nseg + 1) => b.role = "body"
                    /\ Cardinality({i \in 1..Len(latest.builders) :
                                       latest.builders[i].role = "body"}) <= 1

\* A handler (int8, context.Context, *testRequest) was registered on "/a/:i":
\* a path parameter, a passthrough that is not first, and the body.
C6_Witness ==
    /\ routes # <<>>
    /\ routes[Len(routes)].path = PathAI
    /\ routes[Len(routes)].handler.in = <<int8Type, contextType, ptrRequestBodyT>>
    /\ mux # <<>>
    /\ latest.builders[1].role = "path"
    /\ latest.builders[2].role = "context"
    /\ latest.builders[3].role = "body"

\* The values of a kind that the texts of the model can spell.
ValuesOf(kind) ==
    CASE kind = "Int8"          -> -128..127
      [] kind = "Uint8"         -> 0..255
      [] kind \in UnsignedKinds -> 0..300
      [] OTHER                  -> -300..300

\* A text that is an optional sign followed by digits, and its value.
Numeric(text) ==
    LET rest == IF text # <<>> /\ text[1] \in {"+", "-"} THEN Tail(text) ELSE text
    IN  rest # <<>> /\ \A i \in 1..Len(rest) : rest[i] \in Range(Digits)

NumericValue(text) == ParseInt(text, 64).n

OutOfRange(kind, v) ==
    CASE kind = "Int8"          -> v < -128 \/ v > 127
      [] kind = "Uint8"         -> v < 0 \/ v > 255
      [] kind = "Int16"         -> v < -32768 \/ v > 32767
      [] kind = "Uint16"        -> v < 0 \/ v > 65535
      [] kind \in UnsignedKinds -> v < 0
      [] OTHER                  -> FALSE

\* C7: for every supported kind, the binder applied to the decimal text of a
\* value in the kind's range returns that value and no failure (a string
\* binder returns the text itself), and applied to a text that is not numeric
\* or is out of the kind's range it returns a failure and no value.
C7_RoundTrip ==
    bound.applied =>
        /\ bound.kind = "String" =>
              bound.err = Nil /\ bound.val = StrValue(bound.text)
        /\ (bound.kind # "String" /\ \E v \in ValuesOf(bound.kind) : DecimalText(v) = bound.text) =>
              /\ bound.err = Nil
              /\ bound.val = NumValue(KindType(bound.kind), NumericValue(bound.text))
        /\ (bound.kind # "String"
              /\ (~Numeric(bound.text) \/ OutOfRange(bound.kind, NumericValue(bound.text)))) =>
              /\ bound.err # Nil
              /\ ~bound.val.valid

\* The uint8 binder was applied to "12" and returned no failure.
C7_Reached ==
    /\ bound.applied
    /\ bound.kind = "Uint8"
    /\ bound.text = <<"1", "2">>
    /\ bound.err = Nil

\* C8: every request handed to the dispatcher of a registered route gets its
\* response written exactly once, and the dispatcher does not panic.
C8_WrittenExactlyOnce ==
    resp.served => (Len(resp.writes) = 1 /\ ~resp.panicked)

\* C9: the dispatcher of a route whose method is not POST, PUT or PATCH never
\* calls Protocol.DecodeClientRequest.
C9_DecodeOnlyForBodyMethods ==
    (resp.served /\ route.method \notin {"POST", "PUT", "PATCH"}) => resp.decodes = 0

\* C10: the value the body builder produces has exactly the declared type of
\* the body parameter, so fv.Call accepts it.
C10_BodyValueHasDeclaredType ==
    resp.served =>
        \A i \in 1..Len(resp.params) :
            route.builders[i].role = "body" =>
                /\ resp.params[i].typ = route.fv.in[i]
                /\ AssignableTo(resp.params[i].typ, route.fv.in[i])

====
